---------------------------- MODULE Spec2Model ----------------------------
(***************************************************************************)
(* beancount-price-fetcher: the `series` command (quota pre-check and the  *)
(* bounded fan-out of per-day historical requests) and the file-backed     *)
(* exchange rate cache.                                                    *)
(*                                                                         *)
(* A NaiveDate is modelled as its day number; an ExchangeRate as the       *)
(* record of its date, obtained_datetime and rates fields, where the rates *)
(* table the provider holds for day d is identified by d.                  *)
(***************************************************************************)
EXTENDS Integers, Sequences, FiniteSets, TLC

\* Bounds of the model.
MaxDay == 5
MaxPar == 2
MaxRemaining == 4

\* Seconds in a day: NaiveDateTime::from_timestamp(secs, 0).date().
SecondsPerDay == 86400

Days == 1..MaxDay

\* The day on which the program runs (Utc::now()), after every requested day.
Today == MaxDay + 1

VARIABLES
    pc,                 \* position of main's series command
    start_date,         \* --start
    end_date,           \* --end
    parallel_requests,  \* --parallel-requests
    no_quota_check,     \* --no-quota-check
    source,             \* what the provider answers to historical/<date>.json
    usage,              \* the usage report received by get_usage, if any
    get_usage_calls,    \* number of usage.json requests sent
    dates,              \* Vec<NaiveDate> of get_time_series_with_historical
    stream_pos,         \* number of dates already taken from stream::iter(dates)
    in_progress,        \* requested dates whose get_historical future is in the buffer
    results,            \* Vec<anyhow::Result<ExchangeRate>>, in completion order
    outcome,            \* what the series command returned
    cache_file,         \* what the filesystem holds at the cache path
    cache,              \* the FileExchangeRateCache handle
    panicked,           \* a todo!() was reached
    last_call           \* the last ExchangeRateCache method called

vars == <<pc, start_date, end_date, parallel_requests, no_quota_check, source,
          usage, get_usage_calls, dates, stream_pos, in_progress, results,
          outcome, cache_file, cache, panicked, last_call>>

fetch_vars == <<dates, stream_pos, in_progress, results>>
input_vars == <<start_date, end_date, parallel_requests, no_quota_check, source>>
cache_vars == <<cache_file, cache, panicked, last_call>>

-----------------------------------------------------------------------------
\* Results and maps.

Ok(value) == [ok |-> TRUE, value |-> value]
Err(error) == [ok |-> FALSE, error |-> error]

\* BTreeMap::new()
EmptyMap == [k \in {} |-> k]

\* BTreeMap::insert(key, value): the value replaces any entry under key.
MapInsert(map, key, value) ==
    [k \in (DOMAIN map) \cup {key} |-> IF k = key THEN value ELSE map[k]]

-----------------------------------------------------------------------------
\* The provider (RateSource).

\* How the provider answers historical/<date>.json: with a failure, or with an
\* OpenExchangeRate whose timestamp lies in the requested day (its last second)
\* or in the day before.
Answers == {"error", "on_day", "day_before"}

OpenExchangeRateOf(date, skew) ==
    [timestamp |-> (date - skew) * SecondsPerDay + (SecondsPerDay - 1),
     rates |-> date]

Response(date, answer) ==
    CASE answer = "error" -> Err(date)
      [] answer = "on_day" -> Ok(OpenExchangeRateOf(date, 0))
      [] answer = "day_before" -> Ok(OpenExchangeRateOf(date, 1))

\* impl Into<ExchangeRate> for OpenExchangeRate
into(oer) ==
    [date |-> oer.timestamp \div SecondsPerDay,
     obtained_datetime |-> Today,
     rates |-> oer.rates]

\* get_historical -> get_day_json: request_json(..).await.map(|rate| rate.into())
get_historical(date) ==
    IF source[date].ok THEN Ok(into(source[date].value)) ELSE source[date]

-----------------------------------------------------------------------------
\* get_time_series_with_historical.

RECURSIVE DateRange(_, _)
\* let mut dt = start; while &dt <= end { dates.push(dt); dt = dt + 1 day }
DateRange(dt, end) ==
    IF dt <= end THEN <<dt>> \o DateRange(dt + 1, end) ELSE <<>>

\* A variant of SeriesInsert that keys the entry by the day the rate was obtained.
SeriesInsertByObtained(series, exchange_rate) ==
    MapInsert(series, exchange_rate.obtained_datetime, exchange_rate)

\* series.insert(exchange_rate.date.expect(..), exchange_rate)
SeriesInsert(series, exchange_rate) ==
    MapInsert(series, exchange_rate.date, exchange_rate)

RECURSIVE AssembleSkippingErrors(_, _)
\* A variant of Assemble that drops failed results instead of returning the error.
AssembleSkippingErrors(rs, series) ==
    IF rs = <<>> THEN [kind |-> "series", map |-> series]
    ELSE IF Head(rs).ok
         THEN AssembleSkippingErrors(Tail(rs), SeriesInsert(series, Head(rs).value))
         ELSE AssembleSkippingErrors(Tail(rs), series)

RECURSIVE Assemble(_, _)
\* for result in results { match result { Ok(r) => insert, Err(e) => return Err(e) } }
\* Ok(TimeSeries { map: series })
Assemble(rs, series) ==
    IF rs = <<>> THEN [kind |-> "series", map |-> series]
    ELSE IF Head(rs).ok
         THEN Assemble(Tail(rs), SeriesInsert(series, Head(rs).value))
         ELSE [kind |-> "fetch_error", error |-> Head(rs).error]

\* A variant of HasFreeSlot that starts the next futures only once every
\* future in progress has completed (batch, then wait).
HasFreeSlotWhenDrained(queue, max) == queue = {} /\ max > 0

\* A variant of HasFreeSlot that keeps one slot too few.
HasFreeSlotOneFewer(queue, max) == Cardinality(queue) + 1 < max

\* A variant of HasFreeSlot that admits one future too many.
HasFreeSlotOffByOne(queue, max) == Cardinality(queue) <= max

\* buffer_unordered(n): a new future is taken from the stream while fewer than
\* n are in progress.
HasFreeSlot(queue, max) == Cardinality(queue) < max

-----------------------------------------------------------------------------
\* main, series command.

NoUsage == [received |-> FALSE, requests_remaining |-> 0]

Pending == [kind |-> "pending"]

\* end_date.signed_duration_since(start_date).num_days()
expected_requests == end_date - start_date

\* if !no_quota_check { let usage = get_usage(..).await? ...
RequestUsage ==
    /\ pc = "start"
    /\ ~panicked
    /\ ~no_quota_check
    /\ get_usage_calls' = get_usage_calls + 1
    /\ pc' = "usage"
    /\ UNCHANGED <<input_vars, usage, fetch_vars, outcome, cache_vars>>

\* get_usage(..).await? fails: main returns the error.
UsageFails ==
    /\ pc = "usage"
    /\ outcome' = [kind |-> "usage_error"]
    /\ pc' = "done"
    /\ UNCHANGED <<input_vars, usage, get_usage_calls, fetch_vars, cache_vars>>

\* A variant of QuotaExceeded that reports the error and goes on to fetch.
QuotaExceededThenFetch(remaining) ==
    /\ pc = "usage"
    /\ expected_requests > remaining
    /\ usage' = [received |-> TRUE, requests_remaining |-> remaining]
    /\ outcome' = [kind |-> "quota_error", expected |-> expected_requests,
                   remaining |-> remaining]
    /\ dates' = DateRange(start_date, end_date)
    /\ pc' = "fetch"
    /\ UNCHANGED <<input_vars, get_usage_calls, stream_pos, in_progress, results,
                   cache_vars>>

\* The usage report arrives and expected_requests > requests_remaining.
QuotaExceeded(remaining) ==
    /\ pc = "usage"
    /\ expected_requests > remaining
    /\ usage' = [received |-> TRUE, requests_remaining |-> remaining]
    /\ outcome' = [kind |-> "quota_error", expected |-> expected_requests,
                   remaining |-> remaining]
    /\ pc' = "done"
    /\ UNCHANGED <<input_vars, get_usage_calls, fetch_vars, cache_vars>>

\* The usage report arrives and the check passes: get_time_series_with_historical
\* is called and enumerates the dates.
QuotaPassed(remaining) ==
    /\ pc = "usage"
    /\ ~(expected_requests > remaining)
    /\ usage' = [received |-> TRUE, requests_remaining |-> remaining]
    /\ dates' = DateRange(start_date, end_date)
    /\ pc' = "fetch"
    /\ UNCHANGED <<input_vars, get_usage_calls, stream_pos, in_progress, results,
                   outcome, cache_vars>>

\* --no-quota-check: get_time_series_with_historical is called directly.
SkipQuotaCheck ==
    /\ pc = "start"
    /\ ~panicked
    /\ no_quota_check
    /\ dates' = DateRange(start_date, end_date)
    /\ pc' = "fetch"
    /\ UNCHANGED <<input_vars, usage, get_usage_calls, stream_pos, in_progress,
                   results, outcome, cache_vars>>

\* BufferUnordered::poll_next, first loop: the next date is taken from the
\* stream and its get_historical future starts.
Dispatch ==
    /\ pc = "fetch"
    /\ HasFreeSlot(in_progress, parallel_requests)
    /\ stream_pos < Len(dates)
    /\ in_progress' = in_progress \cup {dates[stream_pos + 1]}
    /\ stream_pos' = stream_pos + 1
    /\ UNCHANGED <<pc, input_vars, usage, get_usage_calls, dates, results,
                   outcome, cache_vars>>

\* BufferUnordered::poll_next, after the first loop (the buffer is full or the
\* stream has ended): a future in progress completes and its result is
\* collected.
Complete(date) ==
    /\ pc = "fetch"
    /\ date \in in_progress
    /\ \/ ~HasFreeSlot(in_progress, parallel_requests)
       \/ stream_pos = Len(dates)
    /\ in_progress' = in_progress \ {date}
    /\ results' = Append(results, get_historical(date))
    /\ UNCHANGED <<pc, input_vars, usage, get_usage_calls, dates, stream_pos,
                   outcome, cache_vars>>

\* buffer.collect().await ends (the stream was polled to its end and nothing is
\* in progress); the results are folded into the series and main returns.
Collect ==
    /\ pc = "fetch"
    /\ HasFreeSlot(in_progress, parallel_requests)
    /\ stream_pos = Len(dates)
    /\ in_progress = {}
    /\ outcome' = Assemble(results, EmptyMap)
    /\ pc' = "done"
    /\ UNCHANGED <<input_vars, usage, get_usage_calls, fetch_vars, cache_vars>>

-----------------------------------------------------------------------------
\* FileExchangeRateCache.

\* The ExchangeRate a cache file holds for a day (fetched on that day).
StoredRate(date) == [date |-> date, obtained_datetime |-> date, rates |-> date]

\* The maps a cache file can decode to.
Snapshots == { [d \in S |-> StoredRate(d)] : S \in SUBSET Days }

\* What the filesystem holds at the cache path: nothing, a directory, or a
\* regular file. metadata: stat() on the path succeeds; readable: File::open
\* succeeds; decodes: the bytes are a bincode BTreeMap, which is snapshot.
Absent ==
    [kind |-> "absent", metadata |-> FALSE, readable |-> FALSE, decodes |-> FALSE,
     snapshot |-> EmptyMap]

Directory ==
    [kind |-> "dir", metadata |-> TRUE, readable |-> FALSE, decodes |-> FALSE,
     snapshot |-> EmptyMap]

Files ==
    { [kind |-> "file", metadata |-> m, readable |-> r, decodes |-> TRUE,
       snapshot |-> s] : m \in BOOLEAN, r \in BOOLEAN, s \in Snapshots }
    \cup
    { [kind |-> "file", metadata |-> m, readable |-> r, decodes |-> FALSE,
       snapshot |-> EmptyMap] : m \in BOOLEAN, r \in BOOLEAN }

FileStates == {Absent, Directory} \cup Files

\* Path::exists: false when nothing is there or the metadata cannot be read.
exists(path) == path.kind # "absent" /\ path.metadata

\* Path::is_file
is_file(path) == path.kind = "file" /\ path.metadata

Unopened == [state |-> "unopened", exchange_rates |-> EmptyMap]

OpenError == [state |-> "error", exchange_rates |-> EmptyMap]

Opened(exchange_rates) == [state |-> "open", exchange_rates |-> exchange_rates]

\* FileExchangeRateCache::open
open(path) ==
    IF exists(path) /\ is_file(path)
    THEN IF ~path.readable THEN OpenError          \* File::open(&cache_file)?
         ELSE IF ~path.decodes THEN OpenError      \* deserialize_from(file)?
         ELSE Opened(path.snapshot)
    ELSE Opened(EmptyMap)

NoCall == [op |-> "none"]

\* let cache = FileExchangeRateCache::open(path)
Open ==
    /\ pc = "start"
    /\ ~panicked
    /\ cache.state = "unopened"
    /\ cache' = open(cache_file)
    /\ UNCHANGED <<pc, input_vars, usage, get_usage_calls, fetch_vars, outcome,
                   cache_file, panicked, last_call>>

\* get_exchange_rate(date): todo!()
Get(date) ==
    /\ pc \in {"start", "done"}
    /\ ~panicked
    /\ last_call' = [op |-> "get", date |-> date]
    /\ panicked' = TRUE
    /\ UNCHANGED <<pc, input_vars, usage, get_usage_calls, fetch_vars, outcome,
                   cache_file, cache>>

\* A variant of Put that stores the rate and writes the cache file itself.
PutWritingFile(date, exchange_rate) ==
    /\ pc \in {"start", "done"}
    /\ ~panicked
    /\ cache.state = "open"
    /\ last_call' = [op |-> "put", date |-> date, exchange_rate |-> exchange_rate]
    /\ cache' = Opened(MapInsert(cache.exchange_rates, date, exchange_rate))
    /\ cache_file' = [kind |-> "file", metadata |-> TRUE, readable |-> TRUE,
                      decodes |-> TRUE, snapshot |-> cache'.exchange_rates]
    /\ UNCHANGED <<pc, input_vars, usage, get_usage_calls, fetch_vars, outcome,
                   panicked>>

\* put_exchange_rate(date, exchange_rate): todo!()
Put(date, exchange_rate) ==
    /\ pc \in {"start", "done"}
    /\ ~panicked
    /\ last_call' = [op |-> "put", date |-> date, exchange_rate |-> exchange_rate]
    /\ panicked' = TRUE
    /\ UNCHANGED <<pc, input_vars, usage, get_usage_calls, fetch_vars, outcome,
                   cache_file, cache>>

\* remove_exchange_rate(date): todo!()
Remove(date) ==
    /\ pc \in {"start", "done"}
    /\ ~panicked
    /\ last_call' = [op |-> "remove", date |-> date]
    /\ panicked' = TRUE
    /\ UNCHANGED <<pc, input_vars, usage, get_usage_calls, fetch_vars, outcome,
                   cache_file, cache>>

\* A caller holding an open cache calls get_time_series_with_historical.
FetchSeries ==
    /\ pc = "start"
    /\ ~panicked
    /\ cache.state = "open"
    /\ dates' = DateRange(start_date, end_date)
    /\ pc' = "fetch"
    /\ UNCHANGED <<input_vars, usage, get_usage_calls, stream_pos, in_progress,
                   results, outcome, cache_vars>>

-----------------------------------------------------------------------------
Init ==
    /\ pc = "start"
    /\ start_date \in Days
    /\ end_date \in Days
    /\ parallel_requests \in 0..MaxPar
    /\ no_quota_check \in BOOLEAN
    /\ \E answers \in [start_date..end_date -> Answers] :
          source = [d \in start_date..end_date |-> Response(d, answers[d])]
    /\ usage = NoUsage
    /\ get_usage_calls = 0
    /\ dates = <<>>
    /\ stream_pos = 0
    /\ in_progress = {}
    /\ results = <<>>
    /\ outcome = Pending
    /\ cache_file = Absent
    /\ cache = Unopened
    /\ panicked = FALSE
    /\ last_call = NoCall

Next ==
    \/ RequestUsage
    \/ UsageFails
    \/ \E remaining \in 0..MaxRemaining : QuotaExceeded(remaining)
    \/ \E remaining \in 0..MaxRemaining : QuotaPassed(remaining)
    \/ SkipQuotaCheck
    \/ Dispatch
    \/ \E date \in Days : Complete(date)
    \/ Collect

Spec == Init /\ [][Next]_vars

\* The series command run with --no-quota-check.
InitFetch == Init /\ no_quota_check

NextFetch ==
    \/ SkipQuotaCheck
    \/ Dispatch
    \/ \E date \in Days : Complete(date)
    \/ Collect

\* The fetch when the runtime keeps polling the task and every request that
\* was started is eventually answered.
FairSpec ==
    /\ InitFetch
    /\ [][NextFetch]_vars
    /\ WF_vars(SkipQuotaCheck)
    /\ WF_vars(Dispatch)
    /\ \A date \in Days : WF_vars(Complete(date))
    /\ WF_vars(Collect)

\* The rates a caller puts: the provider's for the day, fetched today.
PutRates(date) == { into(OpenExchangeRateOf(date, skew)) : skew \in {0, 1} }

\* A caller of the library that opens the cache at a path holding any of
\* FileStates, calls the cache's methods and fetches a series from a provider
\* that answers every day.
InitCache ==
    /\ pc = "start"
    /\ start_date \in Days
    /\ end_date \in Days
    /\ parallel_requests \in 1..MaxPar
    /\ no_quota_check = TRUE
    /\ source = [d \in start_date..end_date |-> Response(d, "on_day")]
    /\ usage = NoUsage
    /\ get_usage_calls = 0
    /\ dates = <<>>
    /\ stream_pos = 0
    /\ in_progress = {}
    /\ results = <<>>
    /\ outcome = Pending
    /\ cache_file \in FileStates
    /\ cache = Unopened
    /\ panicked = FALSE
    /\ last_call = NoCall

NextCache ==
    \/ Open
    \/ \E date \in Days : Get(date)
    \/ \E date \in Days : \E exchange_rate \in PutRates(date) : Put(date, exchange_rate)
    \/ \E date \in Days : Remove(date)
    \/ FetchSeries
    \/ Dispatch
    \/ \E date \in Days : Complete(date)
    \/ Collect

SpecCache == InitCache /\ [][NextCache]_vars

-----------------------------------------------------------------------------
\* Properties.

\* The calls of the operation that failed.
FailedCalls == { i \in 1..Len(results) : ~results[i].ok }

\* get_time_series_with_historical has returned.
FetchReturned == pc = "done" /\ outcome.kind \in {"series", "fetch_error"}

\* The dates held by the open cache.
CachedDates == DOMAIN cache.exchange_rates

\* The per-day requests the fetch needs: one per uncached day of [start, end].
NeededRequests ==
    Cardinality({ d \in start_date..end_date : d \notin CachedDates })

\* The preconditions of a fetch: start <= end and parallelism >= 1.
Preconditions == start_date <= end_date /\ parallel_requests >= 1

\* C1: during a fetch, the number of get_historical calls started and not yet
\* completed never exceeds parallel_requests.
C1_BoundedConcurrency == Cardinality(in_progress) <= parallel_requests

\* The buffer is full while dates are still waiting and a call has completed.
C1_Witness ==
    /\ pc = "fetch"
    /\ parallel_requests >= 2
    /\ Cardinality(in_progress) = parallel_requests
    /\ stream_pos < Len(dates)
    /\ results # <<>>

\* C2: for start <= end, the fetch returns an error or a series whose keys are
\* exactly the days of [start, end], whatever dates the responses carry.
C2_ExactDays ==
    (Preconditions /\ FetchReturned /\ outcome.kind = "series")
        => DOMAIN outcome.map = start_date..end_date

\* C3: the fetch is all-or-nothing: an error and no series when at least one
\* call failed, a series and no error when none failed.
C3_AllOrNothing ==
    FetchReturned =>
        /\ FailedCalls # {} => outcome.kind = "fetch_error"
        /\ FailedCalls = {} => outcome.kind = "series"

\* A fetch that returned an error although its first calls succeeded.
C3_Witness ==
    /\ FetchReturned
    /\ outcome.kind = "fetch_error"
    /\ Len(results) >= 3
    /\ results[1].ok
    /\ results[2].ok

\* C4: with the quota check enabled, the command is rejected exactly when the
\* requests it needs exceed requests_remaining, the rejection reports that
\* number, and a fetch that passed never issues more than requests_remaining.
C4_QuotaCheck ==
    (Preconditions /\ usage.received) =>
        /\ (outcome.kind = "quota_error") <=> (NeededRequests > usage.requests_remaining)
        /\ outcome.kind = "quota_error" => outcome.expected = NeededRequests
        /\ outcome.kind # "quota_error" => stream_pos <= usage.requests_remaining

\* C5: the fetch issues exactly one call per date of [start, end] absent from
\* the cache and none for a cached date.
C5_CallsOnlyForMisses ==
    /\ \A i \in 1..stream_pos : dates[i] \notin CachedDates
    /\ FetchReturned => stream_pos = NeededRequests

\* C6: on an open cache put(d, r) leaves r under d, remove(d) leaves nothing
\* under d, and no method fails or aborts.
C6_RoundTrip ==
    (cache.state = "open" /\ last_call.op # "none") =>
        /\ ~panicked
        /\ last_call.op = "put" =>
              /\ last_call.date \in CachedDates
              /\ cache.exchange_rates[last_call.date] = last_call.exchange_rate
        /\ last_call.op = "remove" => last_call.date \notin CachedDates

\* C7: whenever no flush is pending or running (always: nothing writes the
\* file), the on-disk snapshot reflects the last put or remove.
C7_DiskMatchesLastMutation ==
    cache.state = "open" =>
        /\ last_call.op = "put" =>
              /\ cache_file.kind = "file"
              /\ cache_file.decodes
              /\ last_call.date \in DOMAIN cache_file.snapshot
              /\ cache_file.snapshot[last_call.date] = last_call.exchange_rate
        /\ last_call.op = "remove" =>
              last_call.date \notin DOMAIN cache_file.snapshot

\* C8: every entry of a returned series is stored under its own date.
C8_KeyIsRateDate ==
    outcome.kind = "series" =>
        \A key \in DOMAIN outcome.map : outcome.map[key].date = key

\* A returned series holding a rate whose date is not the day it was requested for.
C8_Witness ==
    /\ outcome.kind = "series"
    /\ Cardinality(DOMAIN outcome.map) >= 2
    /\ \E key \in DOMAIN outcome.map : outcome.map[key].rates # key

\* C9: open gives an empty cache when no file exists, the decoded snapshot when
\* the file decodes, and an error when the file exists but cannot be read or
\* decoded.
C9_Open ==
    cache.state # "unopened" =>
        /\ cache_file.kind = "absent" => cache = Opened(EmptyMap)
        /\ (cache_file.kind = "file" /\ cache_file.metadata /\ cache_file.readable
                /\ cache_file.decodes) => cache = Opened(cache_file.snapshot)
        /\ (cache_file.kind = "file"
                /\ ~(cache_file.metadata /\ cache_file.readable /\ cache_file.decodes))
              => cache = OpenError

\* C10: once a call of the operation has completed with an error, no new call
\* is started.
C10_NoDispatchAfterError ==
    [][(Preconditions /\ FailedCalls # {}) => stream_pos' = stream_pos]_vars

\* The results of the operation had its calls completed in the order of the dates.
ResultsInDateOrder == [i \in 1..Len(dates) |-> get_historical(dates[i])]

\* C11: for fixed answers of the provider, the returned series is the same map
\* under every completion order: it is the one built when the calls complete
\* in the order of the dates.
C11_OrderIndependent ==
    (Preconditions /\ FetchReturned /\ outcome.kind = "series")
        => outcome.map = Assemble(ResultsInDateOrder, EmptyMap).map

\* C12: the fan-out is a sliding window: whenever fewer than parallel_requests
\* calls are in flight and a date has not been dispatched, the next call can
\* start, without waiting for the calls in flight.
C12_SlidingWindow ==
    (pc = "fetch" /\ Cardinality(in_progress) < parallel_requests
        /\ stream_pos < Len(dates)) => ENABLED Dispatch

\* A completion has freed a slot while another call is still in flight and
\* dates are waiting.
C12_Witness ==
    /\ pc = "fetch"
    /\ results # <<>>
    /\ in_progress # {}
    /\ Cardinality(in_progress) < parallel_requests
    /\ stream_pos < Len(dates)

\* C13: a rejection by the quota check ends the command with an error and no
\* per-day request is ever issued; the check comes before the first per-day
\* request; with the check disabled no usage query is issued.
C13_QuotaCheckFirst ==
    /\ outcome.kind = "quota_error" => (pc = "done" /\ stream_pos = 0 /\ dates = <<>>)
    /\ (~no_quota_check /\ stream_pos > 0) => usage.received
    /\ no_quota_check => get_usage_calls = 0

\* A range of several days rejected by the quota check.
C13_Witness ==
    /\ Preconditions
    /\ outcome.kind = "quota_error"
    /\ outcome.expected >= 2
    /\ get_usage_calls = 1

\* C14: write-through: after a successful fetch every date of [start, end] is
\* in the cache with the rate the returned series holds for it.
C14_WriteThrough ==
    (Preconditions /\ cache.state = "open" /\ FetchReturned /\ outcome.kind = "series")
        => \A d \in start_date..end_date :
              /\ d \in CachedDates
              /\ d \in DOMAIN outcome.map
              /\ cache.exchange_rates[d] = outcome.map[d]

\* C15: the cache file is never written by put, remove, get or the fetch
\* tasks: no step of theirs changes what the file holds.
C15_NoDiskWriteByCallers ==
    [][cache_file' = cache_file]_vars

\* A fetch has returned a series and put has then been called, on a cache
\* opened from a file.
C15_Witness ==
    /\ cache.state = "open"
    /\ cache_file.kind = "file"
    /\ FetchReturned
    /\ outcome.kind = "series"
    /\ Len(results) >= 2
    /\ last_call.op = "put"

\* C16: for start <= end and parallel_requests >= 1, when every started call
\* completes, the fetch returns; the enumeration yields exactly
\* end - start + 1 dates, and when the fetch returns every one of them has
\* been dispatched.
C16_Terminates ==
    /\ []((start_date <= end_date /\ pc = "fetch")
            => Len(dates) = end_date - start_date + 1)
    /\ []((Preconditions /\ FetchReturned) => stream_pos = Len(dates))
    /\ (Preconditions /\ pc = "fetch") ~> FetchReturned

\* A fetch over the longest range has returned after all its calls.
C16_Witness ==
    /\ Preconditions
    /\ FetchReturned
    /\ end_date - start_date + 1 = MaxDay
    /\ Len(results) = MaxDay

=============================================================================
